---------------------------- MODULE Spec2Model ----------------------------
(***************************************************************************)
(* yart: the rig_tool attribute macro (libs/yart-macro) and the runtime     *)
(* support it generates code against (libs/yart-shared: wrap_unsafe,        *)
(* ToolError, ToolOutput, derive_parameters).                               *)
(*                                                                          *)
(* Two parts share the module.  The build-time part models the expansion    *)
(* of one declaration by rig_tool (specification CompileSpec).  The         *)
(* run-time part models invocations of the generated Tool implementation:   *)
(* call, which goes through wrap_unsafe and a detached task, name and       *)
(* definition (specifications Spec and FairSpec).                           *)
(*                                                                          *)
(* Text is modelled in two ways.  Identifiers and attribute string          *)
(* literals are sequences of one-character strings, because the macro       *)
(* works on their characters.  Run-time messages are TLA+ strings.          *)
(***************************************************************************)
EXTENDS Naturals, Sequences, FiniteSets, TLC

VARIABLES
    decl,        \* the declaration handed to rig_tool (attribute + fn item)
    phase,       \* "start" | "parsed" | "generated" | "rejected"
    macroArgs,   \* Option<MacroArgs>: the parsed attribute arguments
    tool,        \* Option<artifact>: what rig_tool generated
    buildError,  \* Option<message>: the panic that ended the expansion
    lastName,    \* Option<String>: the value the last name() returned
    defPrompts,  \* the prompt strings definition() has been invoked with
    defResults,  \* the ToolDefinition values definition() has returned
    callPc,      \* per invocation of call: "idle" | "awaiting" | "done" | "dropped" | "panicked"
    taskPc,      \* per invocation: the spawned task's position
    chan,        \* per invocation: the mpsc channel of wrap_unsafe
    taskResult,  \* per invocation: Option<result> the task holds between f().await and send
    bodyResult,  \* per invocation: Option<result> internal_call returned
    compResult,  \* per invocation: Option<result> the computation f completed with
    wrapResult,  \* per invocation: Option<result> wrap_unsafe returned to call
    callResult,  \* per invocation: Option<result> call returned to its caller
    spawned,     \* per invocation: number of tasks launched
    bodyStarts,  \* per invocation: number of times the body was started
    sends,       \* per invocation: number of values put into the channel
    ctxStrong,   \* strong count of the Arc holding the shared context
    artifacts,   \* the constructed artifacts: each one's ctx field
    taskCtx      \* per invocation: Option<handle> the closure given to wrap_unsafe owns

vars == <<decl, phase, macroArgs, tool, buildError, lastName, defPrompts,
          defResults, callPc, taskPc, chan, taskResult, bodyResult, compResult,
          wrapResult, callResult, spawned, bodyStarts, sends, ctxStrong,
          artifacts, taskCtx>>

compileVars == <<decl, phase, macroArgs, tool, buildError>>
observeVars == <<lastName, defPrompts, defResults>>
callVars == <<callPc, taskPc, chan, taskResult, bodyResult, compResult,
              wrapResult, callResult, spawned, bodyStarts, sends, ctxStrong,
              taskCtx>>

----------------------------------------------------------------------------
(* Bounds of the model. *)

MaxIdLen == 3
MaxAttrs == 2
MaxParams == 3
MaxCalls == 2

----------------------------------------------------------------------------
(* Option and Result values. *)

None == <<>>
Some(x) == <<x>>
IsSome(o) == o # <<>>
Unwrap(o) == o[1]

Ok(v) == [tag |-> "Ok", val |-> v]
Err(e) == [tag |-> "Err", val |-> e]
IsOk(r) == r.tag = "Ok"


----------------------------------------------------------------------------
(* Build time: the input of rig_tool.                                      *)

Letters == {"a", "b"}
Digits == {"1"}
Alphabet == Letters \cup Digits \cup {"_"}

\* Sequences over S of length lo..hi.
SeqsUpTo(S, lo, hi) == UNION {[1..n -> S] : n \in lo..hi}

\* A legal Rust identifier: starts with a letter or '_', and is not '_' alone.
IsIdent(s) ==
    /\ Len(s) >= 1
    /\ s[1] \in Letters \cup {"A", "B", "_"}
    /\ s # <<"_">>

FnIdents == {s \in SeqsUpTo(Alphabet, 1, MaxIdLen) : IsIdent(s)}

\* The string literals an attribute value may be.
AttrStrings == {<<>>, <<"t">>, <<"u", "v">>}

\* One syn::Meta of the attribute list.  key "a::b" stands for a path of
\* several segments; val is Some(s) for a string literal s and None for any
\* other expression.
Metas ==
    [form : {"NameValue"}, key : {"description", "name"},
     val : {None} \cup {Some(s) : s \in AttrStrings}]
    \cup [form : {"NameValue"}, key : {"other", "a::b"}, val : {Some(<<"t">>)}]
    \cup [form : {"Path", "List"}, key : {"description"}, val : {None}]

\* syn::Path::get_ident: the identifier of a one-segment path.
get_ident(meta) == IF meta.key = "a::b" THEN None ELSE Some(meta.key)

Types == {"Arc<TestContext>", "TestArgs"}
UnitTy == "()"

\* One syn::FnArg.  pat tells an identifier pattern (x: T) from a
\* destructuring one ((a, b): T); the macro reads only kind and ty.
FnArgs ==
    [kind : {"Typed"}, pat : {"ident", "destructured"}, ty : Types]
    \cup {[kind |-> "Receiver", pat |-> "self", ty |-> "Self"]}

TyArg(t) == [g |-> "Type", ty |-> t]
LifetimeArg == [g |-> "Lifetime", ty |-> "'a"]

\* The declared return type (syn::ReturnType), by shape.
RetTy(kind, last, argform, gargs) ==
    [kind |-> kind, last |-> last, argform |-> argform, gargs |-> gargs]
RetDefault == RetTy("Default", "", "None", <<>>)
RetNotPath == RetTy("NotPath", "", "None", <<>>)
RetOption == RetTy("Path", "Option", "AngleBracketed", <<TyArg("TestOutput")>>)
RetBareResult == RetTy("Path", "Result", "None", <<>>)
RetParenResult == RetTy("Path", "Result", "Parenthesized", <<>>)
RetEmptyResult == RetTy("Path", "Result", "AngleBracketed", <<>>)
RetLifetimeResult ==
    RetTy("Path", "Result", "AngleBracketed", <<LifetimeArg, TyArg("TestOutput")>>)
RetResult1 == RetTy("Path", "Result", "AngleBracketed", <<TyArg("TestOutput")>>)
RetResult2 ==
    RetTy("Path", "Result", "AngleBracketed",
          <<TyArg("TestOutput"), TyArg("ToolError")>>)
RetTypes ==
    {RetDefault, RetNotPath, RetOption, RetBareResult, RetParenResult,
     RetEmptyResult, RetLifetimeResult, RetResult1, RetResult2}

MkDecl(attrs, fn_name, inputs, output) ==
    [attrs |-> attrs, fn_name |-> fn_name, inputs |-> inputs, output |-> output]

DescMeta == [form |-> "NameValue", key |-> "description", val |-> Some(<<"t">>)]
NameMeta == [form |-> "NameValue", key |-> "name", val |-> Some(<<"u", "v">>)]
ArgsParam == [kind |-> "Typed", pat |-> "ident", ty |-> "TestArgs"]
CtxParam == [kind |-> "Typed", pat |-> "ident", ty |-> "Arc<TestContext>"]

\* Representative values of each part of a declaration.
FewAttrs == {<<DescMeta>>, <<NameMeta, DescMeta>>}
FewIdents == {<<"a">>, <<"a", "_", "b">>}
FewInputs == {<<>>, <<ArgsParam>>, <<CtxParam, ArgsParam>>}
FewOutputs == {RetResult2, RetOption}

AllAttrs == SeqsUpTo(Metas, 0, MaxAttrs)
AllInputs == SeqsUpTo(FnArgs, 0, MaxParams)

\* The declarations the build-time model expands: each part ranges over all
\* its values while the other parts range over the representative ones.
Decls ==
    {MkDecl(a, f, i, o) : a \in AllAttrs, f \in FewIdents, i \in FewInputs, o \in FewOutputs}
    \cup {MkDecl(a, f, i, o) : a \in FewAttrs, f \in FnIdents, i \in FewInputs, o \in FewOutputs}
    \cup {MkDecl(a, f, i, o) : a \in FewAttrs, f \in FewIdents, i \in AllInputs, o \in FewOutputs}
    \cup {MkDecl(a, f, i, o) : a \in FewAttrs, f \in FewIdents, i \in FewInputs, o \in RetTypes}

----------------------------------------------------------------------------
(* Build time: to_upper_camel_case.                                        *)

\* str::split('_'): the segments between underscores, empty ones included.
RECURSIVE Split(_)
Split(s) ==
    IF s = <<>> THEN << <<>> >>
    ELSE LET rest == Split(Tail(s))
         IN  IF Head(s) = "_" THEN << <<>> >> \o rest
             ELSE << <<Head(s)>> \o Head(rest) >> \o Tail(rest)

\* char::to_uppercase
to_uppercase(c) ==
    CASE c = "a" -> <<"A">>
      [] c = "b" -> <<"B">>
      [] OTHER -> <<c>>

\* The closure of the map: first.to_uppercase() + the rest of the segment.
Capitalize(part) ==
    IF part = <<>> THEN <<>> ELSE to_uppercase(Head(part)) \o Tail(part)

RECURSIVE Concat(_)
Concat(parts) ==
    IF parts = <<>> THEN <<>> ELSE Head(parts) \o Concat(Tail(parts))

to_upper_camel_case(s) ==
    Concat([i \in 1..Len(Split(s)) |-> Capitalize(Split(s)[i])])

----------------------------------------------------------------------------
(* Build time: MacroArgs::parse.                                           *)

PanicUnwrapNone == "called Option::unwrap() on a None value"
PanicNoDescription == "rig_tool requires a description attribute"

\* The for loop over the metas: only name-value metas are read, the path of
\* each is unwrapped to an identifier, and a value that is a string literal
\* overwrites what an earlier meta of the same key gave.
RECURSIVE ParseMetas(_, _)
ParseMetas(metas, acc) ==
    IF metas = <<>> THEN acc
    ELSE LET meta == Head(metas)
         IN  IF meta.form # "NameValue" THEN ParseMetas(Tail(metas), acc)
             ELSE IF get_ident(meta) = None
                  THEN [acc EXCEPT !.panic = Some(PanicUnwrapNone)]
             ELSE IF Unwrap(get_ident(meta)) = "description"
                  THEN ParseMetas(Tail(metas),
                          IF IsSome(meta.val)
                          THEN [acc EXCEPT !.description = meta.val] ELSE acc)
             ELSE IF Unwrap(get_ident(meta)) = "name"
                  THEN ParseMetas(Tail(metas),
                          IF IsSome(meta.val)
                          THEN [acc EXCEPT !.name = meta.val] ELSE acc)
             ELSE ParseMetas(Tail(metas), acc)

\* Mutant of ExpectDescription: description.unwrap_or_default().
ExpectDescriptionDefault(acc) ==
    Ok([description |-> IF IsSome(acc.description) THEN Unwrap(acc.description) ELSE <<>>,
        name |-> acc.name])

\* description.expect(..): the description is required, any string will do.
ExpectDescription(acc) ==
    IF IsSome(acc.description)
    THEN Ok([description |-> Unwrap(acc.description), name |-> acc.name])
    ELSE Err(PanicNoDescription)

\* MacroArgs::parse: Ok(MacroArgs) or Err(panic message).
MacroArgsParse(attrs) ==
    LET acc == ParseMetas(attrs, [description |-> None, name |-> None, panic |-> None])
    IN  IF IsSome(acc.panic) THEN Err(Unwrap(acc.panic)) ELSE ExpectDescription(acc)

----------------------------------------------------------------------------
(* Build time: the body of rig_tool.                                       *)

PanicBadIdent == "not a valid Ident"
PanicTypedArg == "Expected typed argument"
PanicTypedArgs == "Expected typed arguments"
PanicArity == "rig_tool expects 0-2 arguments (context and/or args)"
PanicResultArg == "Expected Result<T, E> with type argument"
PanicResultArgs == "Expected Result<T, E> with type arguments"
PanicNotResult == "Expected Result return type"
PanicNoReturn == "rig_tool function must return Result"

\* syn::Ident::new(&to_upper_camel_case(..), span): panics unless the string
\* is an identifier.
StructName(fn_name) ==
    LET camel == to_upper_camel_case(fn_name)
    IN  IF IsIdent(camel) THEN Ok(camel) ELSE Err(PanicBadIdent)

\* Mutant of ToolName: the fallback name goes through the case transform.
ToolNameCamel(name, fn_name) ==
    IF IsSome(name) THEN Unwrap(name) ELSE to_upper_camel_case(fn_name)

\* name.unwrap_or_else(|| format!("{}", fn_name))
ToolName(name, fn_name) == IF IsSome(name) THEN Unwrap(name) ELSE fn_name

\* Mutant of ExtractInputs: a sole parameter of a shared-handle type is
\* taken for the context.
ExtractInputsByType(inputs) ==
    CASE Len(inputs) = 0 -> Ok([context |-> None, args |-> None])
      [] Len(inputs) = 1 ->
            IF inputs[1].kind # "Typed" THEN Err(PanicTypedArg)
            ELSE IF inputs[1].ty = "Arc<TestContext>"
                 THEN Ok([context |-> Some(inputs[1].ty), args |-> None])
            ELSE Ok([context |-> None, args |-> Some(inputs[1].ty)])
      [] Len(inputs) = 2 ->
            IF inputs[1].kind = "Typed" /\ inputs[2].kind = "Typed"
            THEN Ok([context |-> Some(inputs[1].ty), args |-> Some(inputs[2].ty)])
            ELSE Err(PanicTypedArgs)
      [] OTHER -> Err(PanicArity)

\* The match on inputs.len(): Ok of the pair (context, args) of optional
\* types, or the panic.
ExtractInputs(inputs) ==
    CASE Len(inputs) = 0 -> Ok([context |-> None, args |-> None])
      [] Len(inputs) = 1 ->
            IF inputs[1].kind = "Typed"
            THEN Ok([context |-> None, args |-> Some(inputs[1].ty)])
            ELSE Err(PanicTypedArg)
      [] Len(inputs) = 2 ->
            IF inputs[1].kind = "Typed" /\ inputs[2].kind = "Typed"
            THEN Ok([context |-> Some(inputs[1].ty), args |-> Some(inputs[2].ty)])
            ELSE Err(PanicTypedArgs)
      [] OTHER -> Err(PanicArity)

\* The match on item.sig.output: Ok(inner type) or the panic.
ExtractReturn(output) ==
    IF output.kind = "Default" THEN Err(PanicNoReturn)
    ELSE IF output.kind # "Path" THEN Err(PanicNotResult)
    ELSE IF output.last # "Result" THEN Err(PanicNotResult)
    ELSE IF output.argform # "AngleBracketed" THEN Err(PanicResultArgs)
    ELSE IF output.gargs # <<>> /\ output.gargs[1].g = "Type"
         THEN Ok(output.gargs[1].ty)
    ELSE Err(PanicResultArg)

\* args_ty and ctx_ty: the type, or unit when the role is absent.
TyOrUnit(opt) == IF IsSome(opt) THEN Unwrap(opt) ELSE UnitTy

\* The parameter list of the generated internal_call.
InternalCallInputs(context, args) ==
    IF IsSome(context) /\ IsSome(args)
    THEN <<[name |-> "ctx", ty |-> TyOrUnit(context)],
           [name |-> "args", ty |-> TyOrUnit(args)]>>
    ELSE IF IsSome(context) THEN <<[name |-> "ctx", ty |-> TyOrUnit(context)]>>
    ELSE IF IsSome(args) THEN <<[name |-> "args", ty |-> TyOrUnit(args)]>>
    ELSE <<>>

\* The chosen call_body: whether it clones self.ctx, and what it passes to
\* internal_call.
CallBody(context, args) ==
    IF IsSome(context) /\ IsSome(args)
    THEN [clones_ctx |-> TRUE, passes |-> <<"ctx", "args">>]
    ELSE IF IsSome(context) THEN [clones_ctx |-> TRUE, passes |-> <<"ctx">>]
    ELSE IF IsSome(args) THEN [clones_ctx |-> FALSE, passes |-> <<"args">>]
    ELSE [clones_ctx |-> FALSE, passes |-> <<>>]

\* The parameters of the generated constructor.
NewMethod(context) ==
    IF IsSome(context) THEN <<[name |-> "ctx", ty |-> TyOrUnit(context)]>> ELSE <<>>

\* The quote! at the end: the generated struct and its impls.
Generate(margs, struct_name, fn_name, io, return_ty) ==
    [struct_name |-> struct_name,
     ctx_field_ty |-> TyOrUnit(io.context),
     new_params |-> NewMethod(io.context),
     internal_call_inputs |-> InternalCallInputs(io.context, io.args),
     return_ty |-> return_ty,
     error_ty |-> "yart::ToolError",
     NAME |-> ToolName(margs.name, fn_name),
     description |-> margs.description,
     Args |-> TyOrUnit(io.args),
     call_body |-> CallBody(io.context, io.args)]

\* rig_tool after the attribute has been parsed: Ok(artifact) or the first
\* panic, in the order the code meets them.
Expand(margs, d) ==
    LET sn == StructName(d.fn_name)
        io == ExtractInputs(d.inputs)
        rt == ExtractReturn(d.output)
    IN  IF ~IsOk(sn) THEN sn
        ELSE IF ~IsOk(io) THEN io
        ELSE IF ~IsOk(rt) THEN rt
        ELSE Ok(Generate(margs, sn.val, d.fn_name, io.val, rt.val))

----------------------------------------------------------------------------
(* Build time: the two steps of one expansion.                             *)

\* parse_macro_input!(attr as MacroArgs)
ParseAttr ==
    /\ phase = "start"
    /\ LET r == MacroArgsParse(decl.attrs)
       IN  IF IsOk(r)
           THEN /\ macroArgs' = Some(r.val)
                /\ phase' = "parsed"
                /\ buildError' = buildError
           ELSE /\ macroArgs' = macroArgs
                /\ phase' = "rejected"
                /\ buildError' = Some(r.val)
    /\ UNCHANGED <<decl, tool, observeVars, callVars, artifacts>>

\* The rest of rig_tool, from the parsed item to output.into().
ExpandItem ==
    /\ phase = "parsed"
    /\ LET r == Expand(Unwrap(macroArgs), decl)
       IN  IF IsOk(r)
           THEN /\ tool' = Some(r.val)
                /\ phase' = "generated"
                /\ buildError' = buildError
           ELSE /\ tool' = tool
                /\ phase' = "rejected"
                /\ buildError' = Some(r.val)
    /\ UNCHANGED <<decl, macroArgs, observeVars, callVars, artifacts>>

----------------------------------------------------------------------------
(* Run time: the values of yart-shared.                                    *)

ChannelClosed == "Channel closed"
SerializationPrefix == "Serialization error: "

ToolError(m) == [type |-> "yart::ToolError", msg |-> m]
Anyhow(m) == [type |-> "anyhow::Error", msg |-> m]
ToolOutput(json) == [type |-> "yart::ToolOutput", result |-> json]

\* Display, for ToolError (write!(f, "{}", self.0)) and for anyhow::Error.
to_string(e) == e.msg

\* Mutant of ToolErrorFrom: the message is decorated on conversion.
ToolErrorFromDecorated(e) == ToolError("Error: " \o to_string(e))

\* impl From<anyhow::Error> for ToolError
ToolErrorFrom(e) == ToolError(to_string(e))

\* derive_parameters::<T>(): the schema document of T, a function of T alone.
derive_parameters(T) ==
    [schema |-> "http://json-schema.org/draft-07/schema#", title |-> T]

\* The success values a body may return, and whether serde_json can
\* serialize each (a map with non-string keys cannot be).
SuccessValues ==
    {[data |-> "Success", serializable |-> TRUE],
     [data |-> "MapWithTupleKeys", serializable |-> FALSE]}

\* The messages a body may fail with: any text, among them the texts the
\* wrapper and the generated call use themselves.
BodyMessages ==
    {"Forced error", "Channel closed", "Serialization error: key must be a string"}

\* What internal_call may return: Result<return_ty, ToolError>.
BodyOutcomes ==
    {Ok(v) : v \in SuccessValues} \cup {Err(ToolError(m)) : m \in BodyMessages}

\* serde_json::to_value
to_value(v) ==
    IF v.serializable THEN Ok([json |-> v.data]) ELSE Err("key must be a string")

\* The closure given to wrap_unsafe:
\* internal_call(..).await.map_err(|e| anyhow::anyhow!(e.to_string()))
MapErr(r) == IF IsOk(r) THEN r ELSE Err(Anyhow(to_string(r.val)))

----------------------------------------------------------------------------
(* Run time: the channel of wrap_unsafe.                                   *)

NoChannel == [buf |-> <<>>, tx |-> FALSE, rx |-> FALSE]
\* mpsc::channel(1)
NewChannel == [buf |-> <<>>, tx |-> TRUE, rx |-> TRUE]

\* Mutant of Send: the value never reaches the queue.
SendLost(ch, r) == ch

\* tx.send(result).await, the outcome ignored: the value is queued when the
\* receiver is alive and lost when it is gone.  The channel holds one value
\* and is sent to once, so the send never waits.
Send(ch, r) == IF ch.rx THEN [ch EXCEPT !.buf = Append(ch.buf, r)] ELSE ch

\* Mutant of DropTx: a clone of the sender outlives the task.
DropTxLeaked(ch) == ch

\* Dropping the sender / the receiver.
DropTx(ch) == [ch EXCEPT !.tx = FALSE]
DropRx(ch) == [ch EXCEPT !.rx = FALSE, !.buf = <<>>]

\* Mutant of RecvReady: the receiver does not notice that the senders are gone.
RecvReadyValueOnly(ch) == ch.buf # <<>>

\* rx.recv().await completes once a value is queued or every sender is gone.
RecvReady(ch) == ch.buf # <<>> \/ ~ch.tx
Recv(ch) == IF ch.buf # <<>> THEN Some(Head(ch.buf)) ELSE None

\* rx.recv().await.ok_or_else(|| anyhow!("Channel closed"))?
WrapUnsafeReturn(received) ==
    IF IsSome(received) THEN Unwrap(received) ELSE Err(Anyhow(ChannelClosed))

\* Mutant of CallReturn: the serialization failure is passed on without the
\* prefix.
CallReturnBareCause(wr) ==
    IF ~IsOk(wr) THEN Err(ToolErrorFrom(wr.val))
    ELSE LET ser == to_value(wr.val)
         IN  IF IsOk(ser) THEN Ok(ToolOutput(ser.val))
             ELSE Err(ToolError(ser.val))

\* The generated call after wrap_unsafe: .await? converts a failure into a
\* ToolError; a success is serialized and wrapped into a ToolOutput.
CallReturn(wr) ==
    IF ~IsOk(wr) THEN Err(ToolErrorFrom(wr.val))
    ELSE LET ser == to_value(wr.val)
         IN  IF IsOk(ser) THEN Ok(ToolOutput(ser.val))
             ELSE Err(ToolError(SerializationPrefix \o ser.val))

\* The generated name(): Self::NAME.to_string()
name(t) == t.NAME

\* Mutant of definition: a non-empty prompt is appended to the description.
definitionWithPrompt(t, prompt) ==
    [name |-> t.NAME,
     description |-> IF prompt = "" THEN t.description ELSE t.description \o <<"+">>,
     parameters |-> derive_parameters(t.Args)]

\* The generated definition(&self, _prompt)
definition(t, prompt) ==
    [name |-> t.NAME,
     description |-> t.description,
     parameters |-> derive_parameters(t.Args)]

----------------------------------------------------------------------------
(* Run time: one invocation of call, and the task it spawns.               *)

Calls == 1..MaxCalls
Prompts == {"", "hello"}

TheTool == Unwrap(tool)
\* 1 when the call body holds a clone of the context handle, else 0.
CtxClones == IF TheTool.call_body.clones_ctx THEN 1 ELSE 0

\* The artifacts constructed from the generated type.  When the tool has a
\* context they are all built from clones of one Arc, as in
\* let ctx = Arc::new(..); let tool = TestTool::new(ctx.clone());
Artifacts == {1, 2}

\* An Arc handle is the allocation it points to; TheContext is the
\* allocation Arc::new made.
TheContext == [arc |-> "TestContext"]

\* The generated constructor: Self { ctx }, or Self { ctx: () }.
new(params, ctx) == [ctx |-> IF params # <<>> THEN ctx ELSE UnitTy]

\* Mutant of Clone: a handle to a fresh allocation holding a copy of the
\* context, Arc::new((*self.ctx).clone()).
CloneDeep(h) == [arc |-> "copy of TestContext"]

\* self.ctx.clone() on an Arc: a handle to the same allocation (the strong
\* count is raised where the clone is made, in CallStart).
Clone(h) == h

\* call up to its only suspension point: clone the context handle, create
\* the channel, spawn the task, await rx.recv().  Invocations are numbered
\* in the order they start.
CallStart(i) ==
    /\ phase = "generated"
    /\ callPc[i] = "idle"
    /\ \A j \in Calls : j < i => callPc[j] # "idle"
    /\ \E a \in Artifacts :
          taskCtx' = [taskCtx EXCEPT ![i] =
                         IF TheTool.call_body.clones_ctx
                         THEN Some(Clone(artifacts[a].ctx)) ELSE None]
    /\ ctxStrong' = ctxStrong + CtxClones
    /\ chan' = [chan EXCEPT ![i] = NewChannel]
    /\ taskPc' = [taskPc EXCEPT ![i] = "spawned"]
    /\ spawned' = [spawned EXCEPT ![i] = @ + 1]
    /\ callPc' = [callPc EXCEPT ![i] = "awaiting"]
    /\ UNCHANGED <<compileVars, observeVars, artifacts, taskResult, bodyResult, compResult,
                   wrapResult, callResult, bodyStarts, sends>>

\* The first poll of the spawned task: f() is called and the body starts.
TaskStart(i) ==
    /\ taskPc[i] = "spawned"
    /\ taskPc' = [taskPc EXCEPT ![i] = "running"]
    /\ bodyStarts' = [bodyStarts EXCEPT ![i] = @ + 1]
    /\ UNCHANGED <<compileVars, observeVars, artifacts, callPc, chan, taskResult,
                   bodyResult, compResult, wrapResult, callResult, spawned, sends, ctxStrong, taskCtx>>

\* Mutant of BodyReturn: a body that returns a failure is started again.
BodyReturnRetry(i, r) ==
    /\ taskPc[i] = "running"
    /\ IF IsOk(r)
       THEN /\ taskPc' = [taskPc EXCEPT ![i] = "sending"]
            /\ taskResult' = [taskResult EXCEPT ![i] = Some(MapErr(r))]
            /\ bodyResult' = [bodyResult EXCEPT ![i] = Some(r)]
            /\ compResult' = [compResult EXCEPT ![i] = Some(MapErr(r))]
            /\ ctxStrong' = ctxStrong - CtxClones
            /\ taskCtx' = [taskCtx EXCEPT ![i] = None]
            /\ UNCHANGED bodyStarts
       ELSE /\ bodyStarts[i] <= MaxCalls
            /\ bodyStarts' = [bodyStarts EXCEPT ![i] = @ + 1]
            /\ UNCHANGED <<taskPc, taskResult, bodyResult, compResult, ctxStrong, taskCtx>>
    /\ UNCHANGED <<compileVars, observeVars, artifacts, callPc, chan, wrapResult,
                   callResult, spawned, sends>>

\* let result = f().await: the body returns r; the body's future, and the
\* context handle it owns, are dropped.
BodyReturn(i, r) ==
    /\ taskPc[i] = "running"
    /\ taskPc' = [taskPc EXCEPT ![i] = "sending"]
    /\ taskResult' = [taskResult EXCEPT ![i] = Some(MapErr(r))]
    /\ bodyResult' = [bodyResult EXCEPT ![i] = Some(r)]
    /\ compResult' = [compResult EXCEPT ![i] = Some(MapErr(r))]
    /\ ctxStrong' = ctxStrong - CtxClones
    /\ taskCtx' = [taskCtx EXCEPT ![i] = None]
    /\ UNCHANGED <<compileVars, observeVars, artifacts, callPc, chan, wrapResult,
                   callResult, spawned, bodyStarts, sends>>

\* The body panics: the task unwinds, dropping tx and the context handle.
BodyPanic(i) ==
    /\ taskPc[i] = "running"
    /\ taskPc' = [taskPc EXCEPT ![i] = "panicked"]
    /\ chan' = [chan EXCEPT ![i] = DropTx(@)]
    /\ ctxStrong' = ctxStrong - CtxClones
    /\ taskCtx' = [taskCtx EXCEPT ![i] = None]
    /\ UNCHANGED <<compileVars, observeVars, artifacts, callPc, taskResult, bodyResult, compResult,
                   wrapResult, callResult, spawned, bodyStarts, sends>>

\* The body never completes (it waits for something that never happens).
BodyDiverge(i) ==
    /\ taskPc[i] = "running"
    /\ taskPc' = [taskPc EXCEPT ![i] = "diverged"]
    /\ UNCHANGED <<compileVars, observeVars, artifacts, callPc, chan, taskResult,
                   bodyResult, compResult, wrapResult, callResult, spawned, bodyStarts,
                   sends, ctxStrong, taskCtx>>

\* The runtime cancels the task at a suspension point before the body has
\* returned (runtime shutdown): the task's future is dropped, tx with it.
TaskAbort(i) ==
    /\ taskPc[i] \in {"spawned", "running"}
    /\ taskPc' = [taskPc EXCEPT ![i] = "aborted"]
    /\ chan' = [chan EXCEPT ![i] = DropTx(@)]
    /\ ctxStrong' = ctxStrong - CtxClones
    /\ taskCtx' = [taskCtx EXCEPT ![i] = None]
    /\ UNCHANGED <<compileVars, observeVars, artifacts, callPc, taskResult, bodyResult, compResult,
                   wrapResult, callResult, spawned, bodyStarts, sends>>

\* let _ = tx.send(result).await; then the task ends and tx is dropped.
TaskSend(i) ==
    /\ taskPc[i] = "sending"
    /\ chan' = [chan EXCEPT ![i] = DropTx(Send(@, Unwrap(taskResult[i])))]
    /\ sends' = [sends EXCEPT ![i] = IF chan[i].rx THEN @ + 1 ELSE @]
    /\ taskResult' = [taskResult EXCEPT ![i] = None]
    /\ taskPc' = [taskPc EXCEPT ![i] = "finished"]
    /\ UNCHANGED <<compileVars, observeVars, artifacts, callPc, bodyResult, compResult, wrapResult,
                   callResult, spawned, bodyStarts, ctxStrong, taskCtx>>

\* Mutant of CallerRecv: rx.recv().await.expect(..), which panics in the
\* caller's task when the channel closed without a value.
CallerRecvExpect(i) ==
    /\ callPc[i] = "awaiting"
    /\ RecvReady(chan[i])
    /\ IF IsSome(Recv(chan[i]))
       THEN /\ wrapResult' = [wrapResult EXCEPT ![i] = Some(Unwrap(Recv(chan[i])))]
            /\ callResult' = [callResult EXCEPT ![i] = Some(CallReturn(Unwrap(Recv(chan[i]))))]
            /\ callPc' = [callPc EXCEPT ![i] = "done"]
       ELSE /\ UNCHANGED <<wrapResult, callResult>>
            /\ callPc' = [callPc EXCEPT ![i] = "panicked"]
    /\ chan' = [chan EXCEPT ![i] = DropRx(@)]
    /\ UNCHANGED <<compileVars, observeVars, artifacts, taskPc, taskResult, bodyResult,
                   compResult, spawned, bodyStarts, sends, ctxStrong, taskCtx>>

\* Mutant of CallerRecv: the invocations share their channels, so a caller
\* is resumed by whatever any task sent or by any task's end.
CallerRecvAnyChannel(i) ==
    /\ callPc[i] = "awaiting"
    /\ \E j \in Calls :
          /\ chan[j] # NoChannel
          /\ RecvReady(chan[j])
          /\ LET wr == WrapUnsafeReturn(Recv(chan[j]))
             IN  /\ wrapResult' = [wrapResult EXCEPT ![i] = Some(wr)]
                 /\ callResult' = [callResult EXCEPT ![i] = Some(CallReturn(wr))]
    /\ chan' = [chan EXCEPT ![i] = DropRx(@)]
    /\ callPc' = [callPc EXCEPT ![i] = "done"]
    /\ UNCHANGED <<compileVars, observeVars, artifacts, taskPc, taskResult, bodyResult, compResult,
                   spawned, bodyStarts, sends, ctxStrong, taskCtx>>

\* rx.recv() completes; wrap_unsafe returns (rx is dropped) and call runs to
\* its end in the caller's task.
CallerRecv(i) ==
    /\ callPc[i] = "awaiting"
    /\ RecvReady(chan[i])
    /\ LET wr == WrapUnsafeReturn(Recv(chan[i]))
       IN  /\ wrapResult' = [wrapResult EXCEPT ![i] = Some(wr)]
           /\ callResult' = [callResult EXCEPT ![i] = Some(CallReturn(wr))]
    /\ chan' = [chan EXCEPT ![i] = DropRx(@)]
    /\ callPc' = [callPc EXCEPT ![i] = "done"]
    /\ UNCHANGED <<compileVars, observeVars, artifacts, taskPc, taskResult, bodyResult, compResult,
                   spawned, bodyStarts, sends, ctxStrong, taskCtx>>

\* Mutant of CallerDrop: dropping the pending call cancels the task it
\* launched, as dropping an owned JoinHandle wrapper that aborts would.
CallerDropCancels(i) ==
    /\ callPc[i] = "awaiting"
    /\ callPc' = [callPc EXCEPT ![i] = "dropped"]
    /\ IF taskPc[i] \in {"spawned", "running", "sending"}
       THEN /\ taskPc' = [taskPc EXCEPT ![i] = "aborted"]
            /\ chan' = [chan EXCEPT ![i] = DropTx(DropRx(@))]
            /\ taskResult' = [taskResult EXCEPT ![i] = None]
            /\ ctxStrong' = ctxStrong - (IF IsSome(taskCtx[i]) THEN 1 ELSE 0)
            /\ taskCtx' = [taskCtx EXCEPT ![i] = None]
       ELSE /\ chan' = [chan EXCEPT ![i] = DropRx(@)]
            /\ UNCHANGED <<taskPc, taskResult, ctxStrong, taskCtx>>
    /\ UNCHANGED <<compileVars, observeVars, artifacts, bodyResult, compResult,
                   wrapResult, callResult, spawned, bodyStarts, sends>>

\* The owner of the pending call drops it: rx is dropped, nobody awaits.
CallerDrop(i) ==
    /\ callPc[i] = "awaiting"
    /\ chan' = [chan EXCEPT ![i] = DropRx(@)]
    /\ callPc' = [callPc EXCEPT ![i] = "dropped"]
    /\ UNCHANGED <<compileVars, observeVars, artifacts, taskPc, taskResult, bodyResult, compResult,
                   wrapResult, callResult, spawned, bodyStarts, sends, ctxStrong, taskCtx>>

\* tool.name()
NameCall ==
    /\ phase = "generated"
    /\ lastName' = Some(name(TheTool))
    /\ UNCHANGED <<compileVars, defPrompts, defResults, callVars, artifacts>>

\* tool.definition(prompt).await
DefinitionCall(prompt) ==
    /\ phase = "generated"
    /\ defPrompts' = defPrompts \cup {prompt}
    /\ defResults' = defResults \cup {definition(TheTool, prompt)}
    /\ UNCHANGED <<compileVars, lastName, callVars, artifacts>>

----------------------------------------------------------------------------
(* Specifications.                                                         *)

ObserveInit ==
    /\ lastName = None
    /\ defPrompts = {}
    /\ defResults = {}

CallInit ==
    /\ callPc = [i \in Calls |-> "idle"]
    /\ taskPc = [i \in Calls |-> "none"]
    /\ chan = [i \in Calls |-> NoChannel]
    /\ taskResult = [i \in Calls |-> None]
    /\ bodyResult = [i \in Calls |-> None]
    /\ compResult = [i \in Calls |-> None]
    /\ wrapResult = [i \in Calls |-> None]
    /\ callResult = [i \in Calls |-> None]
    /\ spawned = [i \in Calls |-> 0]
    /\ bodyStarts = [i \in Calls |-> 0]
    /\ sends = [i \in Calls |-> 0]
    /\ taskCtx = [i \in Calls |-> None]

\* Build time: a declaration is handed to rig_tool.
CompileInit ==
    /\ decl \in Decls
    /\ phase = "start"
    /\ macroArgs = None
    /\ tool = None
    /\ buildError = None
    /\ ObserveInit
    /\ CallInit
    /\ ctxStrong = 0
    /\ artifacts = <<>>

\* The declarations whose artifacts the run-time model invokes: one without
\* a context and without a name attribute, one with both.
RuntimeDecls ==
    {MkDecl(<<DescMeta>>, <<"a", "_", "b">>, <<ArgsParam>>, RetResult2),
     MkDecl(<<NameMeta, DescMeta>>, <<"a", "_", "b">>, <<CtxParam, ArgsParam>>, RetResult2)}

\* Run time: the type has been generated and the artifacts constructed with
\* new.  When the tool has a context, its owner and every artifact hold one
\* handle each to the same allocation.
RuntimeInit(decls) ==
    /\ decl \in decls
    /\ phase = "generated"
    /\ macroArgs = Some(MacroArgsParse(decl.attrs).val)
    /\ tool = Some(Expand(Unwrap(macroArgs), decl).val)
    /\ buildError = None
    /\ ObserveInit
    /\ CallInit
    /\ artifacts = [a \in Artifacts |-> new(TheTool.new_params, TheContext)]
    /\ ctxStrong = IF TheTool.new_params # <<>> THEN 1 + Cardinality(Artifacts) ELSE 0

Init == RuntimeInit(RuntimeDecls)

CallNext ==
    \E i \in Calls :
        \/ CallStart(i)
        \/ TaskStart(i)
        \/ \E r \in BodyOutcomes : BodyReturn(i, r)
        \/ BodyPanic(i)
        \/ BodyDiverge(i)
        \/ TaskAbort(i)
        \/ TaskSend(i)
        \/ CallerRecv(i)
        \/ CallerDrop(i)

ObserveNext ==
    \/ NameCall
    \/ \E p \in Prompts : DefinitionCall(p)

Next == CallNext \/ ObserveNext

Spec == Init /\ [][Next]_vars

CompileNext == ParseAttr \/ ExpandItem \/ ObserveNext

CompileSpec == CompileInit /\ [][CompileNext]_vars

\* The run-time model of call alone, under the scheduling the runtime gives:
\* a spawned task is polled, a body that is polled takes its next step
\* (which may be to wait forever), a send completes, and a caller whose
\* recv is ready is resumed.  Dropping a pending call and cancelling a task
\* are left to the environment.
FairInit == RuntimeInit({d \in RuntimeDecls : Len(d.inputs) = 2})

BodyStep(i) ==
    \/ \E r \in BodyOutcomes : BodyReturn(i, r)
    \/ BodyPanic(i)
    \/ BodyDiverge(i)

Fairness ==
    \A i \in Calls :
        /\ WF_vars(TaskStart(i))
        /\ WF_vars(BodyStep(i))
        /\ WF_vars(TaskSend(i))
        /\ WF_vars(CallerRecv(i))

FairSpec == FairInit /\ [][CallNext]_vars /\ Fairness

----------------------------------------------------------------------------
(* Properties of wrap_unsafe and of the generated call.                    *)

\* The spawned task ended without reaching its send.
Abnormal(i) == taskPc[i] \in {"panicked", "aborted"}
Returned(i) == callPc[i] = "done"

\* C1: when the spawned task panics or is cancelled before it has sent a
\* result, the caller awaiting it is eventually resumed and returns the
\* "Channel closed" failure, from wrap_unsafe and from call, and no other
\* outcome (a returned call stays returned, so any other outcome would keep
\* the target false for ever); it does not wait for ever.  The one way out
\* is that the owner drops the pending call before it is resumed.
C1_AbnormalTerminationYieldsChannelClosed ==
    \A i \in Calls :
        (Abnormal(i) /\ callPc[i] = "awaiting")
            ~> \/ /\ Returned(i)
                  /\ wrapResult[i] = Some(Err(Anyhow(ChannelClosed)))
                  /\ callResult[i] = Some(Err(ToolError(ChannelClosed)))
               \/ callPc[i] = "dropped"

C1_Witness ==
    \E i \in Calls :
        /\ taskPc[i] = "aborted"
        /\ Returned(i)
        /\ to_string(Unwrap(wrapResult[i]).val) = ChannelClosed

\* C2 as stated: whatever the computation does, a pending call eventually
\* returns to its caller (or is dropped by its owner).
C2_EveryCallReturns ==
    \A i \in Calls : (callPc[i] = "awaiting") ~> (callPc[i] \in {"done", "dropped"})

\* C2 as amended: when the computation returns, panics or is cancelled, the
\* channel is eventually sent to or closed and the pending call returns
\* with a value or an error (unless its owner drops it first); only a
\* computation that never completes keeps the caller waiting.
C2_CallReturnsUnlessBodyDiverges ==
    \A i \in Calls :
        (callPc[i] = "awaiting")
            ~> \/ /\ Returned(i)
                  /\ IsSome(callResult[i])
                  /\ sends[i] = 1 \/ ~chan[i].tx
               \/ callPc[i] = "dropped"
               \/ taskPc[i] = "diverged"

C2_Witness ==
    \E i \in Calls :
        /\ Returned(i)
        /\ taskPc[i] = "finished"
        /\ sends[i] = 1
        /\ IsOk(Unwrap(callResult[i]))

\* C3: when the computation given to wrap_unsafe completed, wrap_unsafe
\* returns exactly the computation's result: the same success value, or a
\* failure with the same text; "Channel closed" is not put in its place.
C3_ResultPassThrough ==
    \A i \in Calls :
        (Returned(i) /\ IsSome(compResult[i])) =>
            LET comp == Unwrap(compResult[i])
                wr == Unwrap(wrapResult[i])
            IN  /\ wr.tag = comp.tag
                /\ IsOk(comp) => wr.val = comp.val
                /\ ~IsOk(comp) => to_string(wr.val) = to_string(comp.val)

C3_Witness ==
    \E i \in Calls :
        /\ Returned(i)
        /\ compResult[i] = Some(Err(Anyhow("Forced error")))
        /\ wrapResult[i] = compResult[i]

\* C4: when the body returns a failure whose display text is m, call returns
\* an error, not a ToolOutput, and the error is a ToolError whose text is m.
C4_BodyFailureTextPreserved ==
    \A i \in Calls :
        (Returned(i) /\ IsSome(bodyResult[i]) /\ ~IsOk(Unwrap(bodyResult[i]))) =>
            LET res == Unwrap(callResult[i])
            IN  /\ ~IsOk(res)
                /\ res.val.type = "yart::ToolError"
                /\ to_string(res.val) = to_string(Unwrap(bodyResult[i]).val)

C4_Witness ==
    \E i \in Calls :
        /\ Returned(i)
        /\ bodyResult[i] = Some(Err(ToolError("Forced error")))
        /\ callResult[i] = Some(Err(ToolError("Forced error")))

\* A well-formed result of call: Ok of a ToolOutput or Err of a ToolError.
WellFormed(res) ==
    \/ res.tag = "Ok" /\ res.val.type = "yart::ToolOutput"
    \/ res.tag = "Err" /\ res.val.type = "yart::ToolError"

\* C5: whatever the spawned task does, the caller's task never panics; a
\* call that has finished has returned exactly one well-formed ToolOutput
\* or ToolError, and a ToolError when the task ended abnormally or the
\* success value could not be serialized.
C5_FaultContainment ==
    \A i \in Calls :
        /\ callPc[i] # "panicked"
        /\ Returned(i) =>
            /\ IsSome(callResult[i])
            /\ WellFormed(Unwrap(callResult[i]))
            /\ Abnormal(i) => ~IsOk(Unwrap(callResult[i]))
            /\ (IsSome(bodyResult[i]) /\ IsOk(Unwrap(bodyResult[i]))
                  /\ ~Unwrap(bodyResult[i]).val.serializable)
                 => ~IsOk(Unwrap(callResult[i]))

C5_Witness ==
    \E i, j \in Calls :
        /\ taskPc[i] = "panicked"
        /\ callResult[i] = Some(Err(ToolError(ChannelClosed)))
        /\ callResult[j] =
              Some(Err(ToolError("Serialization error: key must be a string")))

----------------------------------------------------------------------------
(* Properties of the expansion.                                            *)

Finished == phase \in {"generated", "rejected"}

\* C6: position alone decides the roles.  With no parameter there is no
\* context and Args is unit; with one, no context and Args is its type; with
\* two, the context is the first's type and Args the second's.  new takes a
\* context exactly when there is one, and internal_call is declared with,
\* and called with, exactly these roles.
C6_ArityToRole ==
    phase = "generated" =>
        LET n == Len(decl.inputs)
            t == TheTool
        IN  /\ n \in {0, 1, 2}
            /\ n = 0 =>
                /\ t.new_params = <<>> /\ t.ctx_field_ty = UnitTy
                /\ t.Args = UnitTy
                /\ t.internal_call_inputs = <<>>
                /\ t.call_body = [clones_ctx |-> FALSE, passes |-> <<>>]
            /\ n = 1 =>
                /\ t.new_params = <<>> /\ t.ctx_field_ty = UnitTy
                /\ t.Args = decl.inputs[1].ty
                /\ t.internal_call_inputs = <<[name |-> "args", ty |-> decl.inputs[1].ty]>>
                /\ t.call_body = [clones_ctx |-> FALSE, passes |-> <<"args">>]
            /\ n = 2 =>
                /\ t.new_params = <<[name |-> "ctx", ty |-> decl.inputs[1].ty]>>
                /\ t.ctx_field_ty = decl.inputs[1].ty
                /\ t.Args = decl.inputs[2].ty
                /\ t.internal_call_inputs =
                      <<[name |-> "ctx", ty |-> decl.inputs[1].ty],
                        [name |-> "args", ty |-> decl.inputs[2].ty]>>
                /\ t.call_body = [clones_ctx |-> TRUE, passes |-> <<"ctx", "args">>]

\* A sole parameter of the context's type is still the args.
C6_Witness ==
    /\ phase = "generated"
    /\ Len(decl.inputs) = 1
    /\ decl.inputs[1].ty = "Arc<TestContext>"
    /\ TheTool.Args = "Arc<TestContext>"
    /\ TheTool.new_params = <<>>

\* The positions of the name attributes that carry a string.
NameAttrs(d) ==
    {k \in 1..Len(d.attrs) :
        /\ d.attrs[k].form = "NameValue"
        /\ d.attrs[k].key = "name"
        /\ IsSome(d.attrs[k].val)}
Last(S) == CHOOSE k \in S : \A l \in S : l <= k

\* C7: NAME, the value of name() and the name field of definition() are all
\* the string of the name attribute when one is given (the last one when it
\* is given twice), and otherwise the function's identifier, unchanged.
C7_NameResolution ==
    phase = "generated" =>
        LET expected ==
                IF NameAttrs(decl) # {}
                THEN Unwrap(decl.attrs[Last(NameAttrs(decl))].val)
                ELSE decl.fn_name
        IN  /\ TheTool.NAME = expected
            /\ IsSome(lastName) => Unwrap(lastName) = expected
            /\ \A d \in defResults : d.name = expected

C7_Witness ==
    /\ phase = "generated"
    /\ NameAttrs(decl) = {}
    /\ decl.fn_name = <<"a", "_", "b">>
    /\ lastName = Some(<<"a", "_", "b">>)
    /\ \E d \in defResults : d.name = <<"a", "_", "b">>

\* C8 as stated: for every legal function identifier the derived type name
\* is a usable identifier and the expansion does not fail on it; the
\* generated struct is named by the UpperCamelCase of the identifier.
C8_CamelCaseAlwaysUsable ==
    (Finished /\ IsSome(macroArgs)) =>
        /\ IsIdent(to_upper_camel_case(decl.fn_name))
        /\ buildError # Some(PanicBadIdent)
        /\ phase = "generated" =>
              TheTool.struct_name = to_upper_camel_case(decl.fn_name)

HasDescription(d) ==
    \E k \in 1..Len(d.attrs) :
        /\ d.attrs[k].form = "NameValue"
        /\ d.attrs[k].key = "description"
        /\ IsSome(d.attrs[k].val)
BadArity(d) == Len(d.inputs) \notin {0, 1, 2}
HasReceiver(d) == \E k \in 1..Len(d.inputs) : d.inputs[k].kind = "Receiver"
HasNonSimpleParam(d) ==
    \E k \in 1..Len(d.inputs) :
        d.inputs[k].kind # "Typed" \/ d.inputs[k].pat # "ident"
IsFallibleResult(o) ==
    /\ o.kind = "Path"
    /\ o.last = "Result"
    /\ o.argform = "AngleBracketed"
    /\ \E k \in 1..Len(o.gargs) : o.gargs[k].g = "Type"

\* What every rejection comes to: no artifact, nothing to invoke at run time.
NoArtifact == tool = None /\ lastName = None /\ defResults = {}

\* C9 as stated: a declaration is rejected when the description is absent,
\* the parameter count is not 0, 1 or 2, a parameter is not a simple typed
\* parameter, or the return type is not a fallible result with a success
\* type; a description that is present, even empty, is never the reason.
C9_RejectsEveryMalformedDeclaration ==
    /\ (Finished /\ (\/ ~HasDescription(decl)
                     \/ BadArity(decl)
                     \/ HasNonSimpleParam(decl)
                     \/ ~IsFallibleResult(decl.output)))
          => (phase = "rejected" /\ NoArtifact)
    /\ HasDescription(decl) => buildError # Some(PanicNoDescription)

\* C9 as amended: the parameter forms that are rejected are the receivers;
\* a typed parameter is accepted whatever its pattern.
C9_RejectsMalformedDeclaration ==
    /\ (Finished /\ (\/ ~HasDescription(decl)
                     \/ BadArity(decl)
                     \/ HasReceiver(decl)
                     \/ ~IsFallibleResult(decl.output)))
          => (phase = "rejected" /\ NoArtifact)
    /\ phase = "rejected" => NoArtifact
    /\ HasDescription(decl) => buildError # Some(PanicNoDescription)

C9_Witness ==
    /\ phase = "rejected"
    /\ HasDescription(decl)
    /\ Len(decl.inputs) = 2
    /\ decl.inputs[1].kind = "Receiver"
    /\ buildError = Some(PanicTypedArgs)
    /\ NoArtifact

\* The declared description: the string of the last description attribute.
DescriptionAttrs(d) ==
    {k \in 1..Len(d.attrs) :
        /\ d.attrs[k].form = "NameValue"
        /\ d.attrs[k].key = "description"
        /\ IsSome(d.attrs[k].val)}

\* C10: every invocation of definition, whatever its prompt and whatever
\* calls and name invocations surround it, returns the same value: the
\* tool's name, the declared description, and the schema of the args type.
C10_DefinitionIgnoresPrompt ==
    /\ Cardinality(defResults) <= 1
    /\ \A d \in defResults :
          /\ d.name = TheTool.NAME
          /\ d.description = Unwrap(decl.attrs[Last(DescriptionAttrs(decl))].val)
          /\ d.parameters = derive_parameters(TheTool.Args)

C10_Witness ==
    /\ defPrompts = Prompts
    /\ Cardinality(defResults) = 1
    /\ IsSome(lastName)
    /\ \E i \in Calls : Returned(i)

----------------------------------------------------------------------------
(* Properties of the constructed artifacts.                                *)

HasContext == TheTool.new_params # <<>>
\* The invocations whose closure still owns its clone of the handle.
HoldingCtx == {i \in Calls : IsSome(taskCtx[i])}

\* C11: no invocation of name, definition or call changes the generated
\* type or any constructed artifact; name() returns the constant NAME in
\* every state; what call hands to the body is a handle to the very
\* allocation the artifacts were built from, never a copy, so that every
\* artifact keeps referring to that one context, whose strong count is the
\* number of handles alive: the owner's, one per artifact, one per closure.
C11_ArtifactImmutableContextShared ==
    /\ [][tool' = tool /\ artifacts' = artifacts]_vars
    /\ [](IsSome(lastName) => Unwrap(lastName) = name(TheTool))
    /\ [](\A a \in Artifacts :
            artifacts[a].ctx = IF HasContext THEN TheContext ELSE UnitTy)
    /\ [](\A i \in HoldingCtx, a \in Artifacts : Unwrap(taskCtx[i]) = artifacts[a].ctx)
    /\ [](ctxStrong = IF HasContext
                      THEN 1 + Cardinality(Artifacts) + Cardinality(HoldingCtx)
                      ELSE 0)

C11_Witness ==
    /\ HasContext
    /\ \E i, j \in Calls :
          /\ Returned(i)
          /\ taskCtx[i] = None
          /\ taskPc[j] = "running"
          /\ taskCtx[j] = Some(TheContext)
    /\ artifacts[1].ctx = TheContext
    /\ artifacts[2].ctx = TheContext
    /\ ctxStrong = 4
    /\ lastName = Some(TheTool.NAME)
    /\ defResults # {}

----------------------------------------------------------------------------
(* Properties of the failures call returns.                                *)

Failed(i) == Returned(i) /\ ~IsOk(Unwrap(callResult[i]))

\* Which of the three sub-causes made a failed call fail.
Cause(i) ==
    IF bodyResult[i] = None THEN "abnormal termination"
    ELSE IF ~IsOk(Unwrap(bodyResult[i])) THEN "logic failure"
    ELSE "serialization failure"

\* C12: a failed call carries the body's own text for a logic failure,
\* "Channel closed" for an abnormal termination of the task and
\* "Serialization error: {cause}" for a serialization failure, and the text
\* determines the sub-cause: two failed calls with the same text failed for
\* the same sub-cause.
C12_MessageTextDeterminesCause ==
    /\ \A i \in Calls :
          Failed(i) =>
            LET msg == to_string(Unwrap(callResult[i]).val)
            IN  /\ Cause(i) = "logic failure"
                      => msg = to_string(Unwrap(bodyResult[i]).val)
                /\ Cause(i) = "abnormal termination" => msg = ChannelClosed
                /\ Cause(i) = "serialization failure"
                      => msg = SerializationPrefix
                                 \o to_value(Unwrap(bodyResult[i]).val).val
    /\ \A i, j \in Calls :
          (/\ Failed(i)
           /\ Failed(j)
           /\ to_string(Unwrap(callResult[i]).val) = to_string(Unwrap(callResult[j]).val))
             => Cause(i) = Cause(j)

\* The texts the wrapper and the generated call produce themselves.
OwnTexts ==
    {ChannelClosed}
      \cup {SerializationPrefix \o to_value(v).val :
               v \in {w \in SuccessValues : ~IsOk(to_value(w))}}

\* The body of invocation i did not fail with one of those texts.
BodyTextDistinct(i) ==
    Cause(i) = "logic failure" => to_string(Unwrap(bodyResult[i]).val) \notin OwnTexts

\* C12 (amended): the three texts are as stated, and the text determines
\* the sub-cause among failed calls whose body did not itself fail with
\* "Channel closed" or with a "Serialization error: .." text.
C12_MessageTextPerCause ==
    /\ \A i \in Calls :
          Failed(i) =>
            LET msg == to_string(Unwrap(callResult[i]).val)
            IN  /\ Cause(i) = "logic failure"
                      => msg = to_string(Unwrap(bodyResult[i]).val)
                /\ Cause(i) = "abnormal termination" => msg = ChannelClosed
                /\ Cause(i) = "serialization failure"
                      => msg = SerializationPrefix
                                 \o to_value(Unwrap(bodyResult[i]).val).val
    /\ \A i, j \in Calls :
          (/\ Failed(i) /\ BodyTextDistinct(i)
           /\ Failed(j) /\ BodyTextDistinct(j)
           /\ to_string(Unwrap(callResult[i]).val) = to_string(Unwrap(callResult[j]).val))
             => Cause(i) = Cause(j)

C12_Witness ==
    \E i, j \in Calls :
        /\ Failed(i) /\ Cause(i) = "serialization failure"
        /\ callResult[i] = Some(Err(ToolError("Serialization error: key must be a string")))
        /\ Failed(j) /\ Cause(j) = "abnormal termination"
        /\ callResult[j] = Some(Err(ToolError("Channel closed")))

----------------------------------------------------------------------------
(* Properties of the task wrap_unsafe spawns.                              *)

\* The task of invocation i has ended, or will never take another step.
TaskOver(i) == taskPc[i] \in {"finished", "panicked", "aborted", "diverged"}

\* C13: an invocation that has started has launched exactly one task, and
\* one that has not has launched none; the body is started at most once and
\* only by the launched task; at most one value is ever put into the
\* invocation's channel, and only after the body has returned; a failure
\* value, a panic or a cancellation leaves the number of starts at one.
C13_SingleAttempt ==
    \A i \in Calls :
        /\ spawned[i] = IF callPc[i] = "idle" THEN 0 ELSE 1
        /\ bodyStarts[i] <= spawned[i]
        /\ bodyStarts[i] <= 1
        /\ taskPc[i] \in {"none", "spawned"} => bodyStarts[i] = 0
        /\ taskPc[i] \in {"running", "sending", "finished", "panicked", "diverged"}
              => bodyStarts[i] = 1
        /\ sends[i] <= 1
        /\ Len(chan[i].buf) <= sends[i]
        /\ sends[i] = 1 => taskPc[i] = "finished" /\ IsSome(bodyResult[i])
        /\ (IsSome(bodyResult[i]) /\ ~IsOk(Unwrap(bodyResult[i]))) => bodyStarts[i] = 1
        /\ Abnormal(i) => bodyStarts[i] <= 1 /\ sends[i] = 0

C13_Witness ==
    \E i, j \in Calls :
        /\ Returned(i) /\ TaskOver(i)
        /\ bodyResult[i] = Some(Err(ToolError("Forced error")))
        /\ spawned[i] = 1 /\ bodyStarts[i] = 1 /\ sends[i] = 1
        /\ Returned(j) /\ taskPc[j] = "panicked"
        /\ spawned[j] = 1 /\ bodyStarts[j] = 1 /\ sends[j] = 0

\* C14: dropping a pending call changes nothing about the task it launched:
\* the task stays where it was; when its body has returned and the receiver
\* is gone, its send puts nothing into the channel and the task ends at
\* once, without a fault and without touching the dropped call; and the
\* task of a dropped call goes on to its end: it finishes, or its body
\* panics, or the runtime cancels it, unless its body never completes.
C14_DropDoesNotCancel ==
    /\ [][\A i \in Calls :
            /\ (callPc[i] = "awaiting" /\ callPc'[i] = "dropped")
                  => /\ taskPc'[i] = taskPc[i]
                     /\ taskResult'[i] = taskResult[i]
                     /\ bodyStarts'[i] = bodyStarts[i]
            /\ (callPc[i] = "dropped" /\ taskPc[i] = "sending" /\ taskPc'[i] # "sending")
                  => /\ taskPc'[i] = "finished"
                     /\ chan'[i].buf = <<>>
                     /\ sends'[i] = sends[i]
            /\ callPc[i] = "dropped"
                  => callPc'[i] = "dropped" /\ callResult'[i] = callResult[i]]_vars
    /\ \A i \in Calls : (callPc[i] = "dropped") ~> TaskOver(i)

C14_Witness ==
    \E i \in Calls :
        /\ callPc[i] = "dropped"
        /\ taskPc[i] = "finished"
        /\ bodyStarts[i] = 1
        /\ IsSome(bodyResult[i])
        /\ sends[i] = 0
        /\ chan[i] = NoChannel
        /\ callResult[i] = None

----------------------------------------------------------------------------
(* Properties of invocations in flight together.                           *)

\* Everything that belongs to invocation i.
PerCall(i) ==
    <<callPc[i], taskPc[i], chan[i], taskResult[i], bodyResult[i], compResult[i],
      wrapResult[i], callResult[i], spawned[i], bodyStarts[i], sends[i], taskCtx[i]>>

\* What wrap_unsafe owes invocation i: the result its own task completed
\* with, or the closed-channel failure when its own task ended without one.
OwnOutcome(i) ==
    IF IsSome(compResult[i]) THEN Unwrap(compResult[i]) ELSE Err(Anyhow(ChannelClosed))

\* C15: with any number of invocations in flight in any interleaving, on
\* artifacts sharing one context, a step of one invocation or of its task
\* changes nothing that belongs to another;
\* a channel holds only what the task of its own invocation sent; a call
\* that has returned has returned the outcome of its own task, the
\* closed-channel failure exactly when it was its own task that ended
\* abnormally; and what it returned is never changed afterwards.
C15_CallsIndependent ==
    /\ [][\A i, j \in Calls :
            (i # j /\ PerCall(i)' # PerCall(i)) => PerCall(j)' = PerCall(j)]_vars
    /\ [][\A i \in Calls :
            Returned(i) => /\ Returned(i)'
                           /\ wrapResult'[i] = wrapResult[i]
                           /\ callResult'[i] = callResult[i]]_vars
    /\ [](\A i \in Calls :
            /\ chan[i].buf \in {<<>>, <<OwnOutcome(i)>>}
            /\ chan[i].buf # <<>> => IsSome(compResult[i])
            /\ Returned(i) =>
                  /\ wrapResult[i] = Some(OwnOutcome(i))
                  /\ callResult[i] = Some(CallReturn(OwnOutcome(i)))
                  /\ compResult[i] = None <=> Abnormal(i))

\* The second invocation, started while the first was pending, has returned
\* its own success although the first one's task panicked and the first
\* call is still pending.
C15_Witness ==
    /\ HasContext
    /\ callPc[1] = "awaiting"
    /\ taskPc[1] = "panicked"
    /\ Returned(2)
    /\ taskPc[2] = "finished"
    /\ callResult[2] = Some(Ok(ToolOutput([json |-> "Success"])))

============================================================================
